---- MODULE Spec2Model ----
(***************************************************************************)
(* Sonar Rover visualizers (tools/visualizer/*.py) as state machines.      *)
(*                                                                         *)
(* One running process is one entry point, so `variant` is fixed at        *)
(* construction.  Spec covers the point-accumulating visualizers           *)
(* (radar.py, lidar.py, pointcloud.py, sonar_radar.py, visualize.py),      *)
(* SpecPulse the reading filter of sonar_pulse.py and SpecDepth the image  *)
(* of depth_scanner.py.  A field that several classes have under one name  *)
(* (scan_count) is one variable; the fields of the classes that are not    *)
(* running stay at an idle value.                                          *)
(*                                                                         *)
(* Distances are whole centimetres and the clock is whole seconds; the     *)
(* draws of random.gauss are inputs of the handlers.  Screen positions     *)
(* of the deque-backed variants are not part of a point here: a point is   *)
(* its distance, its creation time and `id`, the number of the insertion   *)
(* that created it (a history value, not a field of the program).          *)
(***************************************************************************)
EXTENDS Integers, Sequences, FiniteSets, TLC

VARIABLES
    variant,      \* which entry point is running
    max_points,   \* configured capacity (maxlen of the deque / --max-points)
    now,          \* time.time()
    points,       \* self.points of the deque-backed visualizers
    nextId,       \* history: number of points ever appended
    scan_count,   \* radar.point_count / lidar.scan_count / pointcloud.scan_count
    frame,        \* the lists computed by the last render pass
    call,         \* history: the last handler called and the distances given to it
    xs, ys, cs,   \* the three parallel lists of visualize.py
    current_dist,     \* SonarPulse: the displayed distance
    target_dist,      \* SonarPulse: the filtered distance it follows
    state,            \* SonarPulse: the rover state label
    reading_history,  \* SonarPulse: the sliding window
    arrivals,         \* history: every sample SonarPulse put in the window
    depth_buffer,     \* DepthScanner: distance per column (centre row)
    display,          \* DepthScanner: pixel per column (centre row)
    scan_x,           \* DepthScanner: sweep position
    last_dist,        \* DepthScanner: last distance painted
    error,            \* the exception the constructor raised, "" when it returned
    camera_angle,     \* PointCloudScanner: virtual camera angle, tenths of a degree
    demo_walls,       \* RadarVisualizer: the obstacles of the demo environment
    out,              \* history: what the last call computed
    scatter,          \* the points the on-screen scatter holds
    last_heading,     \* LidarVisualizer: heading of the last reading
    sim_dist,         \* SonarPulse.run_demo: distance of the simulated rover
    sim_velocity,     \* SonarPulse.run_demo: its velocity, cm/s
    sim_state,        \* SonarPulse.run_demo: its state
    pc                \* main loops: the phase of the current pass

bufferVars == <<max_points, now, points, nextId, frame, xs, ys, cs>>
pulseVars == <<current_dist, target_dist, state, reading_history, arrivals>>
depthVars == <<depth_buffer, display, scan_x, last_dist>>
simVars == <<sim_dist, sim_velocity, sim_state>>
extraVars == <<error, camera_angle, demo_walls, out, scatter, last_heading, simVars, pc>>
vars == <<variant, scan_count, call, bufferVars, pulseVars, depthVars, extraVars>>

(***************************************************************************)
(* Bounds of the model.                                                    *)
(***************************************************************************)
MaxCap == 3        \* largest configured max_points
Slack == 1         \* the clock is sampled Slack after the start and after a lifetime
MaxScans == 2      \* accepted readings per run
MaxReadings == 6   \* readings given to SonarPulse / DepthScanner in one run
DtUnit == 16       \* a frame interval is k / DtUnit seconds
MaxDt == 3         \* largest k
DepthWidth == 7    \* columns of the depth image (--width)

(***************************************************************************)
(* Program constants.                                                      *)
(***************************************************************************)
RADAR_MAX_DIST == 200      \* radar.py default max_dist
LIDAR_MAX_DIST == 250      \* lidar.py default max_dist
CLOUD_MAX_DIST == 300      \* pointcloud.py default max_dist
MAX_RANGE == 200           \* sonar_radar.py MAX_RANGE
MAX_CM == 200              \* visualize.py --max-cm default
MIN_CM == 1                \* visualize.py --min-cm default
RADAR_LIFETIME == 30       \* radar.py: age < 30
LIDAR_LIFETIME == 45       \* lidar.py: cutoff = now - 45
CLOUD_MAX_AGE == 60        \* pointcloud.py: max_age = 60
POINT_LIFETIME == 8        \* sonar_radar.py POINT_LIFETIME
RADAR_SCATTER == 3         \* radar.py: for _ in range(3)
LIDAR_SCATTER == 8         \* lidar.py: for _ in range(8)
PULSE_MAX_DIST == 150      \* sonar_pulse.py: max_dist of SonarPulse
history_size == 5          \* sonar_pulse.py: self.history_size
FOLLOW_GAIN == 8           \* sonar_pulse.py: min(1.0, dt * 8)
DEPTH_MAX_DIST == 200      \* depth_scanner.py: max_dist of DepthScanner
scan_speed == 3            \* depth_scanner.py: self.scan_speed

Variants == {"radar", "lidar", "pointcloud", "sonar_radar", "visualize"}
DequeVariants == {"radar", "lidar", "pointcloud", "sonar_radar"}

MaxDistOf(v) ==
    CASE v = "radar" -> RADAR_MAX_DIST
      [] v = "lidar" -> LIDAR_MAX_DIST
      [] v = "pointcloud" -> CLOUD_MAX_DIST
      [] v = "sonar_radar" -> MAX_RANGE
      [] OTHER -> MAX_CM

LifetimeOf(v) ==
    CASE v = "radar" -> RADAR_LIFETIME
      [] v = "lidar" -> LIDAR_LIFETIME
      [] v = "pointcloud" -> CLOUD_MAX_AGE
      [] OTHER -> POINT_LIFETIME

(***************************************************************************)
(* Inputs.                                                                 *)
(***************************************************************************)
\* the instants at which the clock is sampled
Instants(v) ==
    {0, Slack} \cup
    (IF v = "visualize" THEN {} ELSE {LifetimeOf(v), LifetimeOf(v) + Slack})

\* distances a caller may submit: negative, zero, near zero, around max_dist
Dists(v) == {-5, 0, 2, MaxDistOf(v), MaxDistOf(v) + 1}

\* draws of random.gauss on the distance, rounded to centimetres: the draws
\* of one reading repeat a pattern
Noises == {<<-2, 1>>, <<1, 1>>}
NoiseAt(noise, i) == noise[((i - 1) % Len(noise)) + 1]

Min(a, b) == IF a < b THEN a ELSE b
Max(a, b) == IF a > b THEN a ELSE b

(***************************************************************************)
(* collections.deque(maxlen=n).append: a full deque drops its leftmost     *)
(* element; a deque of maxlen 0 keeps nothing.                             *)
(***************************************************************************)
\* mutants of DequeAppend: no eviction at all; the newest point is dropped
DequeAppendUnbounded(q, p, maxlen) == Append(q, p)
DequeAppendDropNewest(q, p, maxlen) ==
    IF Len(q) >= maxlen THEN q ELSE Append(q, p)

DequeAppend(q, p, maxlen) ==
    IF maxlen = 0 THEN q
    ELSE IF Len(q) >= maxlen THEN Append(Tail(q), p)
    ELSE Append(q, p)

Point(n, d, t) == [id |-> n, d |-> d, t |-> t]

\* idle values of the fields of the classes that are not running
NoBuffer ==
    /\ max_points = 0
    /\ now = 0
    /\ points = <<>>
    /\ nextId = 0
    /\ frame = [pts |-> <<>>, upto |-> 0]
    /\ xs = <<>>
    /\ ys = <<>>
    /\ cs = <<>>

NoPulse ==
    /\ current_dist = 0
    /\ target_dist = 0
    /\ state = ""
    /\ reading_history = <<>>
    /\ arrivals = <<>>

NoDepth ==
    /\ depth_buffer = <<>>
    /\ display = <<>>
    /\ scan_x = 0
    /\ last_dist = 0

NoSim ==
    /\ sim_dist = 0
    /\ sim_velocity = 0
    /\ sim_state = ""

NoExtra ==
    /\ error = ""
    /\ camera_angle = 0
    /\ demo_walls = <<>>
    /\ out = <<>>
    /\ scatter = <<>>
    /\ last_heading = 0
    /\ pc = "ingest"
    /\ NoSim

Init ==
    /\ variant \in Variants
    /\ max_points \in (IF variant = "sonar_radar" THEN {MaxCap} ELSE 0 .. MaxCap)
    /\ now = 0
    /\ points = <<>>
    /\ nextId = 0
    /\ scan_count = 0
    /\ frame = [pts |-> <<>>, upto |-> 0]
    /\ call = [name |-> "init", args |-> <<>>]
    /\ xs = <<>>
    /\ ys = <<>>
    /\ cs = <<>>
    /\ NoPulse
    /\ NoDepth
    /\ NoExtra

\* time passes
Tick ==
    /\ \E t \in Instants(variant) : t > now /\ now' = t
    /\ call' = [name |-> "tick", args |-> <<>>]
    /\ UNCHANGED <<extraVars, pulseVars, depthVars, variant, max_points, points, nextId, scan_count, frame, xs, ys, cs>>

(***************************************************************************)
(* radar.py: RadarVisualizer                                               *)
(***************************************************************************)
\* mutant of RadarRejects: zero is let through
RadarRejectsNegative(dist_cm) == dist_cm < 0 \/ dist_cm > RADAR_MAX_DIST

\* add_point's early return
RadarRejects(dist_cm) == dist_cm <= 0 \/ dist_cm > RADAR_MAX_DIST

\* add_point's scatter loop: sub-point i is appended unless its jittered
\* distance is not positive.  st = [buf, n]: the deque and the insertion count.
RECURSIVE RadarScatter(_, _, _, _, _)
RadarScatter(st, dist_cm, noise, i, t) ==
    IF i > RADAR_SCATTER THEN st
    ELSE LET scatter_dist == dist_cm + NoiseAt(noise, i)
         IN  IF scatter_dist > 0
             THEN RadarScatter(
                      [buf |-> DequeAppend(st.buf, Point(st.n + 1, scatter_dist, t), max_points),
                       n |-> st.n + 1],
                      dist_cm, noise, i + 1, t)
             ELSE RadarScatter(st, dist_cm, noise, i + 1, t)

RadarAddPoint(dist_cm, noise) ==
    /\ variant = "radar"
    /\ scan_count < MaxScans
    /\ call' = [name |-> "add", args |-> <<dist_cm>>]
    /\ IF RadarRejects(dist_cm)
       THEN UNCHANGED <<points, nextId, scan_count>>
       ELSE LET st == RadarScatter([buf |-> points, n |-> nextId], dist_cm, noise, 1, now)
            IN  /\ points' = st.buf
                /\ nextId' = st.n
                /\ scan_count' = scan_count + 1
    /\ UNCHANGED <<extraVars, pulseVars, depthVars, variant, max_points, now, frame, xs, ys, cs>>

\* mutant of RadarVisible: a point of age exactly 30 is still shown
RadarVisibleInclusive(buf, t_now) ==
    SelectSeq(buf, LAMBDA p : t_now - p.t <= RADAR_LIFETIME)

\* update_plot's loop over self.points
RECURSIVE RadarVisible(_, _)
RadarVisible(buf, t_now) ==
    IF buf = <<>> THEN <<>>
    ELSE LET p == Head(buf)
             age == t_now - p.t
             rest == RadarVisible(Tail(buf), t_now)
         IN  IF age < RADAR_LIFETIME THEN <<p>> \o rest ELSE rest

\* a scatter that marks "no point" with a dot at the origin
OffsetsPlaceholder(shown, visible) ==
    IF visible = <<>> THEN <<Point(0, 0, 0)>> ELSE visible

\* the scatter after update_plot / update_display: both return before
\* set_offsets when the buffer is empty and when no point is young enough
Offsets(shown, visible) == IF visible = <<>> THEN shown ELSE visible

RadarUpdatePlot ==
    /\ variant = "radar"
    /\ call' = [name |-> "render", args |-> <<>>]
    /\ frame' = [pts |-> IF points = <<>> THEN <<>> ELSE RadarVisible(points, now),
                 upto |-> nextId]
    /\ scatter' = Offsets(scatter, frame'.pts)
    /\ UNCHANGED <<error, camera_angle, demo_walls, out, last_heading, simVars, pc, pulseVars, depthVars,
                   variant, max_points, now, points, nextId, scan_count, xs, ys, cs>>

(***************************************************************************)
(* lidar.py: LidarVisualizer                                               *)
(***************************************************************************)
LidarRejects(dist_cm) == dist_cm <= 0 \/ dist_cm > LIDAR_MAX_DIST

RECURSIVE LidarScatter(_, _, _, _, _)
LidarScatter(st, dist_cm, noise, i, t) ==
    IF i > LIDAR_SCATTER THEN st
    ELSE LET d == dist_cm + NoiseAt(noise, i)
         IN  IF d > 0
             THEN LidarScatter(
                      [buf |-> DequeAppend(st.buf, Point(st.n + 1, d, t), max_points),
                       n |-> st.n + 1],
                      dist_cm, noise, i + 1, t)
             ELSE LidarScatter(st, dist_cm, noise, i + 1, t)

LidarHeadings == {0, 90}

\* the state add_reading leaves: buffer, last_dist, last_heading, scan_count
LidarAfterReading(heading_deg, dist_cm, noise) ==
    /\ IF LidarRejects(dist_cm)
       THEN UNCHANGED <<points, nextId, scan_count, last_dist, last_heading>>
       ELSE LET st == LidarScatter([buf |-> points, n |-> nextId], dist_cm, noise, 1, now)
            IN  /\ points' = st.buf
                /\ nextId' = st.n
                /\ last_dist' = dist_cm
                /\ last_heading' = heading_deg
                /\ scan_count' = scan_count + 1

LidarAddReading(heading_deg, dist_cm, noise) ==
    /\ variant = "lidar"
    /\ scan_count < MaxScans
    /\ call' = [name |-> "add", args |-> <<dist_cm>>]
    /\ LidarAfterReading(heading_deg, dist_cm, noise)
    /\ UNCHANGED <<error, camera_angle, demo_walls, out, scatter, simVars, pc, pulseVars,
                   depth_buffer, display, scan_x, variant, max_points, now, frame, xs, ys, cs>>

\* add_points keeps the hits with 0 < d < max_dist
LidarKeeps(d) == 0 < d /\ d < LIDAR_MAX_DIST

RECURSIVE LidarAppendHits(_, _, _)
LidarAppendHits(st, points_list, t) ==
    IF points_list = <<>> THEN st
    ELSE LET d == Head(points_list)
         IN  IF LidarKeeps(d)
             THEN LidarAppendHits(
                      [buf |-> DequeAppend(st.buf, Point(st.n + 1, d, t), max_points),
                       n |-> st.n + 1],
                      Tail(points_list), t)
             ELSE LidarAppendHits(st, Tail(points_list), t)

\* the hit lists handed to add_points: up to two hits
HitLists == {<<>>, <<0>>, <<2>>, <<-5, 2>>, <<LIDAR_MAX_DIST, LIDAR_MAX_DIST - 1>>}

LidarAddPoints(points_list) ==
    /\ variant = "lidar"
    /\ scan_count < MaxScans
    /\ call' = [name |-> "add", args |-> points_list]
    /\ LET st == LidarAppendHits([buf |-> points, n |-> nextId], points_list, now)
       IN  /\ points' = st.buf
           /\ nextId' = st.n
    /\ scan_count' = scan_count + 1
    /\ UNCHANGED <<extraVars, pulseVars, depthVars, variant, max_points, now, frame, xs, ys, cs>>

\* update_display's loop: cutoff = now - 45, kept when t > cutoff
RECURSIVE LidarVisible(_, _)
LidarVisible(buf, t_now) ==
    IF buf = <<>> THEN <<>>
    ELSE LET p == Head(buf)
             cutoff == t_now - LIDAR_LIFETIME
             rest == LidarVisible(Tail(buf), t_now)
         IN  IF p.t > cutoff THEN <<p>> \o rest ELSE rest

LidarUpdateDisplay ==
    /\ variant = "lidar"
    /\ call' = [name |-> "render", args |-> <<>>]
    /\ frame' = [pts |-> IF points = <<>> THEN <<>> ELSE LidarVisible(points, now),
                 upto |-> nextId]
    /\ scatter' = Offsets(scatter, frame'.pts)
    /\ UNCHANGED <<error, camera_angle, demo_walls, out, last_heading, simVars, pc, pulseVars, depthVars,
                   variant, max_points, now, points, nextId, scan_count, xs, ys, cs>>

(***************************************************************************)
(* pointcloud.py: PointCloudScanner                                        *)
(***************************************************************************)
camera_speed == 8          \* self.camera_speed = 0.8, in tenths of a degree
FULL_TURN == 3600          \* camera_angle % 360, in tenths of a degree

CloudRejects(dist) == dist <= 0

\* Python's int(): truncation toward zero of num/den, den > 0
IntTrunc(num, den) == IF num >= 0 THEN num \div den ELSE -((-num) \div den)

\* mutant of NumPoints: no lower limit
NumPointsUnbounded(dist) == IntTrunc(15 * CLOUD_MAX_DIST - 10 * dist, CLOUD_MAX_DIST)

\* num_points = max(3, int(15 - 10 * depth_factor)), depth_factor = dist / max_dist
NumPoints(dist) ==
    Max(3, IntTrunc(15 * CLOUD_MAX_DIST - 10 * dist, CLOUD_MAX_DIST))

\* point_dist = max(1, min(max_dist, dist + gauss))
CloudPointDist(dist, g) == Max(1, Min(CLOUD_MAX_DIST, dist + g))

RECURSIVE CloudScatter(_, _, _, _, _, _)
CloudScatter(st, dist, noise, i, num_points, t) ==
    IF i > num_points THEN st
    ELSE CloudScatter(
             [buf |-> DequeAppend(st.buf,
                                  Point(st.n + 1, CloudPointDist(dist, NoiseAt(noise, i)), t),
                                  max_points),
              n |-> st.n + 1],
             dist, noise, i + 1, num_points, t)

CloudDists == Dists("pointcloud") \cup {2 * CLOUD_MAX_DIST}

\* mutant of ReducedAngle: the angle is not reduced
RawAngle(angle) == angle

\* self.camera_angle % 360, in tenths of a degree
ReducedAngle(angle) == angle % FULL_TURN

\* camera_angle is in tenths of a degree; `out` holds the angle whose sine
\* places base_x
CloudAddReading(dist, noise) ==
    /\ variant = "pointcloud"
    /\ call' = [name |-> "add", args |-> <<dist>>]
    /\ IF CloudRejects(dist)
       THEN UNCHANGED <<points, nextId, scan_count, camera_angle, out>>
       ELSE LET st == CloudScatter([buf |-> points, n |-> nextId], dist, noise, 1,
                                   NumPoints(dist), now)
            IN  /\ points' = st.buf
                /\ nextId' = st.n
                /\ scan_count' = scan_count + 1
                /\ camera_angle' = camera_angle + camera_speed
                /\ out' = [angle |-> ReducedAngle(camera_angle + camera_speed)]
    /\ UNCHANGED <<error, demo_walls, scatter, last_heading, simVars, pc, pulseVars, depthVars,
                   variant, max_points, now, frame, xs, ys, cs>>

\* update_display's loop: age < max_age
RECURSIVE CloudVisible(_, _)
CloudVisible(buf, t_now) ==
    IF buf = <<>> THEN <<>>
    ELSE LET p == Head(buf)
             age == t_now - p.t
             rest == CloudVisible(Tail(buf), t_now)
         IN  IF age < CLOUD_MAX_AGE THEN <<p>> \o rest ELSE rest

CloudUpdateDisplay ==
    /\ variant = "pointcloud"
    /\ call' = [name |-> "render", args |-> <<>>]
    /\ frame' = [pts |-> IF points = <<>> THEN <<>> ELSE CloudVisible(points, now),
                 upto |-> nextId]
    /\ scatter' = Offsets(scatter, frame'.pts)
    /\ UNCHANGED <<error, camera_angle, demo_walls, out, last_heading, simVars, pc, pulseVars, depthVars,
                   variant, max_points, now, points, nextId, scan_count, xs, ys, cs>>

(***************************************************************************)
(* sonar_radar.py: SonarRadar.  The deque is built with maxlen=MAX_POINTS  *)
(* (500 in the program); the model runs it with maxlen MaxCap.             *)
(***************************************************************************)
\* read_data appends only when 2 < d < MAX_RANGE
SonarAccepts(d) == 2 < d /\ d < MAX_RANGE

SonarDists == {-5, 0, 2, 3, MAX_RANGE}

SonarReadData(d) ==
    /\ variant = "sonar_radar"
    /\ nextId < max_points + MaxScans
    /\ call' = [name |-> "add", args |-> <<d>>]
    /\ IF SonarAccepts(d)
       THEN /\ points' = DequeAppend(points, Point(nextId + 1, d, now), max_points)
            /\ nextId' = nextId + 1
       ELSE UNCHANGED <<points, nextId>>
    /\ UNCHANGED <<extraVars, pulseVars, depthVars, variant, max_points, now, scan_count, frame, xs, ys, cs>>

\* mutant of SonarPurge: the head is popped as soon as it has any age
RECURSIVE SonarPurgeEager(_, _)
SonarPurgeEager(buf, t_now) ==
    IF buf # <<>> /\ t_now - Head(buf).t > 0
    THEN SonarPurgeEager(Tail(buf), t_now)
    ELSE buf

\* draw_points' purge: while self.points and self.points[0].age() > POINT_LIFETIME
RECURSIVE SonarPurge(_, _)
SonarPurge(buf, t_now) ==
    IF buf # <<>> /\ t_now - Head(buf).t > POINT_LIFETIME
    THEN SonarPurge(Tail(buf), t_now)
    ELSE buf

\* RadarPoint.alpha() times POINT_LIFETIME: max(0, 1 - age / POINT_LIFETIME)
SonarAlpha(p, t_now) == Max(0, POINT_LIFETIME - (t_now - p.t))

\* draw_points' drawing loop: a point with alpha <= 0 is skipped
RECURSIVE SonarDrawn(_, _)
SonarDrawn(buf, t_now) ==
    IF buf = <<>> THEN <<>>
    ELSE LET point == Head(buf)
             rest == SonarDrawn(Tail(buf), t_now)
         IN  IF SonarAlpha(point, t_now) <= 0 THEN rest ELSE <<point>> \o rest

SonarDrawPoints ==
    /\ variant = "sonar_radar"
    /\ call' = [name |-> "render", args |-> <<>>]
    /\ points' = SonarPurge(points, now)
    /\ frame' = [pts |-> SonarDrawn(points', now), upto |-> nextId]
    /\ UNCHANGED <<extraVars, pulseVars, depthVars, variant, max_points, now, nextId, scan_count, xs, ys, cs>>

(***************************************************************************)
(* visualize.py: the body of main's loop for one decoded line.  A field    *)
(* of the message is <<>> when the key is missing and <<v>> otherwise.     *)
(***************************************************************************)
\* float(msg.get(key, default) or default)
MsgNumber(field, default) ==
    IF field = <<>> THEN default
    ELSE IF field[1] = 0 THEN default
    ELSE field[1]

\* math.sin / math.cos of math.radians(h) for h a multiple of 90
SinDeg(h) == CASE h % 360 = 90 -> 1 [] h % 360 = 270 -> -1 [] OTHER -> 0
CosDeg(h) == CASE h % 360 = 0 -> 1 [] h % 360 = 180 -> -1 [] OTHER -> 0

\* s[start:] of a Python list
PySliceFrom(s, start) ==
    LET n == Len(s)
        from == IF start < 0 THEN Max(n + start, 0) ELSE Min(start, n)
    IN  SubSeq(s, from + 1, n)

\* xs[:] = xs[-max_points:] when len(xs) > max_points
Trim(s, cap) == IF Len(s) > cap THEN PySliceFrom(s, -cap) ELSE s

DistFields == {<<>>, <<0>>, <<MIN_CM>>, <<MAX_CM>>, <<MAX_CM + 1>>}
HeadingFields == {<<>>, <<0>>, <<90>>}

VisualizeLine(dist_cm, heading_deg) ==
    /\ variant = "visualize"
    /\ nextId < max_points + MaxScans
    /\ LET dist == MsgNumber(dist_cm, 0)
           heading == MsgNumber(heading_deg, -1)
       IN  /\ call' = [name |-> "add", args |-> <<dist, heading, dist_cm, heading_deg>>]
           /\ IF dist < MIN_CM \/ dist > MAX_CM \/ heading < 0
              THEN UNCHANGED <<xs, ys, cs, nextId>>
              ELSE LET x == dist * SinDeg(heading)
                       y == dist * CosDeg(heading)
                   IN  /\ xs' = Trim(Append(xs, [id |-> nextId + 1, v |-> x]), max_points)
                       /\ ys' = Trim(Append(ys, [id |-> nextId + 1, v |-> y]), max_points)
                       /\ cs' = Trim(Append(cs, [id |-> nextId + 1, v |-> now]), max_points)
                       /\ nextId' = nextId + 1
    /\ UNCHANGED <<extraVars, pulseVars, depthVars, variant, max_points, now, points, scan_count, frame>>

Next ==
    \/ Tick
    \/ \E d \in Dists("radar"), noise \in Noises : RadarAddPoint(d, noise)
    \/ RadarUpdatePlot
    \/ \E h \in LidarHeadings, d \in Dists("lidar"), noise \in Noises :
          LidarAddReading(h, d, noise)
    \/ \E hits \in HitLists : LidarAddPoints(hits)
    \/ LidarUpdateDisplay
    \/ \E d \in CloudDists, noise \in Noises :
          scan_count < MaxScans /\ CloudAddReading(d, noise)
    \/ CloudUpdateDisplay
    \/ \E d \in SonarDists : SonarReadData(d)
    \/ SonarDrawPoints
    \/ \E dist_cm \in DistFields, heading_deg \in HeadingFields :
           VisualizeLine(dist_cm, heading_deg)

Spec == Init /\ [][Next]_vars

(***************************************************************************)
(* Construction with any max_points, zero and negative included.           *)
(* collections.deque(maxlen=n) raises ValueError for n < 0 and accepts     *)
(* n = 0; visualize.py takes --max-points as an int and builds no deque.   *)
(* `error` is the exception the constructor raised, "" for none; after an  *)
(* exception there is no object and no handler runs.                       *)
(***************************************************************************)
ConfigCaps == -1 .. MaxCap

ConstructError(v, cap) ==
    IF v \in DequeVariants /\ cap < 0 THEN "ValueError" ELSE ""

InitConfig ==
    /\ variant \in Variants
    /\ max_points \in (IF variant = "sonar_radar" THEN {MaxCap} ELSE ConfigCaps)
    /\ error = ConstructError(variant, max_points)
    /\ now = 0
    /\ points = <<>>
    /\ nextId = 0
    /\ scan_count = 0
    /\ frame = [pts |-> <<>>, upto |-> 0]
    /\ call = [name |-> "init", args |-> <<>>]
    /\ xs = <<>>
    /\ ys = <<>>
    /\ cs = <<>>
    /\ camera_angle = 0
    /\ demo_walls = <<>>
    /\ out = <<>>
    /\ scatter = <<>>
    /\ last_heading = 0
    /\ pc = "ingest"
    /\ NoSim
    /\ NoPulse
    /\ NoDepth

NextConfig == error = "" /\ Next

SpecConfig == InitConfig /\ [][NextConfig]_vars

(***************************************************************************)
(* The serial loops of radar.py and visualize.py fed lines whose heading   *)
(* is missing, negative, inside [0, 360) or beyond it.                     *)
(***************************************************************************)
SerialDistFields == {<<>>, <<0>>, <<2>>}
SerialHeadingFields == {<<>>, <<-90>>, <<0>>, <<90>>, <<360>>, <<450>>}

\* run_serial's loop body for one decoded line: add_point when
\* heading >= 0 and dist > 0, then update_plot
RadarSerialLine(dist_cm, heading_deg, noise) ==
    /\ variant = "radar"
    /\ LET dist == MsgNumber(dist_cm, 0)
           heading == MsgNumber(heading_deg, -1)
           added == heading >= 0 /\ dist > 0 /\ ~RadarRejects(dist)
           st == IF added
                 THEN RadarScatter([buf |-> points, n |-> nextId], dist, noise, 1, now)
                 ELSE [buf |-> points, n |-> nextId]
       IN  /\ call' = [name |-> "line", args |-> <<dist, heading, dist_cm, heading_deg>>]
           /\ points' = st.buf
           /\ nextId' = st.n
           /\ scan_count' = IF added THEN scan_count + 1 ELSE scan_count
           /\ frame' = [pts |-> IF st.buf = <<>> THEN <<>> ELSE RadarVisible(st.buf, now),
                        upto |-> st.n]
           /\ scatter' = Offsets(scatter, frame'.pts)
    /\ UNCHANGED <<error, camera_angle, demo_walls, out, last_heading, simVars, pc, pulseVars, depthVars,
                   variant, max_points, now, xs, ys, cs>>

InitSerial ==
    /\ variant \in {"radar", "visualize"}
    /\ max_points \in 1 .. MaxCap
    /\ now = 0
    /\ points = <<>>
    /\ nextId = 0
    /\ scan_count = 0
    /\ frame = [pts |-> <<>>, upto |-> 0]
    /\ call = [name |-> "init", args |-> <<>>]
    /\ xs = <<>>
    /\ ys = <<>>
    /\ cs = <<>>
    /\ NoPulse
    /\ NoDepth
    /\ NoExtra

NextSerial ==
    \/ \E d \in SerialDistFields, h \in SerialHeadingFields, noise \in Noises :
          scan_count < MaxScans /\ RadarSerialLine(d, h, noise)
    \/ \E d \in SerialDistFields, h \in SerialHeadingFields : VisualizeLine(d, h)

SpecSerial == InitSerial /\ [][NextSerial]_vars

(***************************************************************************)
(* The sweep of the point cloud's virtual camera over more than one turn:  *)
(* a PointCloudScanner of capacity 1 fed MaxSweep readings.                *)
(***************************************************************************)
MaxSweep == 452    \* readings fed to the sweep (450 make one turn)
SweepDists == {-5, 0, 2}

InitSweep ==
    /\ variant = "pointcloud"
    /\ max_points = 1
    /\ now = 0
    /\ points = <<>>
    /\ nextId = 0
    /\ scan_count = 0
    /\ frame = [pts |-> <<>>, upto |-> 0]
    /\ call = [name |-> "init", args |-> <<>>]
    /\ xs = <<>>
    /\ ys = <<>>
    /\ cs = <<>>
    /\ NoPulse
    /\ NoDepth
    /\ NoExtra

NextSweep ==
    \E d \in SweepDists, noise \in Noises :
        scan_count < MaxSweep /\ CloudAddReading(d, noise)

SpecSweep == InitSweep /\ [][NextSweep]_vars

(***************************************************************************)
(* sonar_pulse.py: the reading filter and the exponential follow.          *)
(*                                                                         *)
(* Distances stay on the centimetre grid: 150 * 1.1 is 165 there.  A frame *)
(* interval dt is a whole number of 1/DtUnit seconds, and update is taken  *)
(* where the product diff * min(1, 8 dt) is on the grid.  dist_graph, the  *)
(* trace drawn in the HUD, is read by no field modelled here and is left   *)
(* out.                                                                    *)
(***************************************************************************)
ClampReading(dist) == Max(2, Min(dist, (PULSE_MAX_DIST * 11) \div 10))

RECURSIVE InsertSorted(_, _)
InsertSorted(s, v) ==
    IF s = <<>> THEN <<v>>
    ELSE IF v <= Head(s) THEN <<v>> \o s
    ELSE <<Head(s)>> \o InsertSorted(Tail(s), v)

RECURSIVE sorted(_)
sorted(s) == IF s = <<>> THEN <<>> ELSE InsertSorted(sorted(Tail(s)), Head(s))

SmoothedLower(history) == sorted(history)[(Len(history) + 1) \div 2]

SmoothedMax(history) == sorted(history)[Len(history)]

\* sorted_history[len(sorted_history) // 2], Python indices from 0
Smoothed(history) == sorted(history)[(Len(history) \div 2) + 1]

\* reading_history.append(dist); pop(0) when longer than history_size
PushReading(history, dist) ==
    IF Len(history) + 1 > history_size THEN Tail(Append(history, dist))
    ELSE Append(history, dist)

RawReadings == {-5, 0, 60, 400}
StateLabels == {"", "DRIVE"}

InitPulse ==
    /\ variant = "sonar_pulse"
    /\ current_dist = 100
    /\ target_dist = 100
    /\ state = "SCANNING"
    /\ reading_history = <<>>
    /\ arrivals = <<>>
    /\ scan_count = 0
    /\ call = [name |-> "init", args |-> <<>>]
    /\ NoBuffer
    /\ NoDepth
    /\ NoExtra

PulseAddReading(dist, label) ==
    /\ variant = "sonar_pulse"
    /\ scan_count < MaxReadings
    /\ state' = (IF label # "" THEN label ELSE "SCANNING")
    /\ scan_count' = scan_count + 1
    /\ LET clamped == ClampReading(dist)
           history == PushReading(reading_history, clamped)
       IN /\ reading_history' = history
          /\ target_dist' = Smoothed(history)
          /\ arrivals' = Append(arrivals, clamped)
    /\ call' = [name |-> "add", args |-> <<dist>>]
    /\ UNCHANGED <<variant, current_dist, bufferVars, depthVars, extraVars>>

FollowFactorUnclamped(k) == FOLLOW_GAIN * k

\* min(1.0, dt * 8) in 1/DtUnit, for dt = k / DtUnit
FollowFactor(k) == Min(DtUnit, FOLLOW_GAIN * k)

PulseUpdate(k) ==
    /\ variant = "sonar_pulse"
    /\ LET diff == target_dist - current_dist
       IN /\ (diff * FollowFactor(k)) % DtUnit = 0
          /\ current_dist' = current_dist + (diff * FollowFactor(k)) \div DtUnit
    /\ call' = [name |-> "update", args |-> <<k>>]
    /\ UNCHANGED <<variant, target_dist, state, reading_history, arrivals,
                   scan_count, bufferVars, depthVars, extraVars>>

NextPulse ==
    \/ \E dist \in RawReadings, label \in StateLabels : PulseAddReading(dist, label)
    \/ \E k \in 0 .. MaxDt : PulseUpdate(k)

SpecPulse == InitPulse /\ [][NextPulse]_vars

(***************************************************************************)
(* depth_scanner.py: the sweeping depth image.                             *)
(*                                                                         *)
(* The image is followed on its centre row, one pixel per column: there    *)
(* every painted column lies inside the object band (spread // 2 >= 10),   *)
(* is written at full intensity, and the scatter pass (a maximum with a    *)
(* dimmer copy of the same colour) leaves it as written.  A pixel is the   *)
(* distance that chose its colour, clipped as dist_to_color clips it, and  *)
(* the number of times the decay by 0.995 has been applied since; <<>> is  *)
(* a pixel never painted (zero, which the decay keeps at zero).            *)
(***************************************************************************)
Columns == 0 .. DepthWidth - 1

DepthReadings == {-5, 0, 50, 120, DEPTH_MAX_DIST}

\* t = np.clip(dist / max_dist, 0, 1), kept as a distance
Shade(dist) == Max(0, Min(dist, DEPTH_MAX_DIST))

Painted(x, from) == \E dx \in 0 .. scan_speed - 1 : x = (from + dx) % DepthWidth

Decay(px) == IF px = <<>> THEN <<>> ELSE <<px[1], px[2] + 1>>

InitDepth ==
    /\ variant = "depth_scanner"
    /\ depth_buffer = [x \in Columns |-> DEPTH_MAX_DIST]
    /\ display = [x \in Columns |-> <<>>]
    /\ scan_x = 0
    /\ last_dist = 0
    /\ scan_count = 0
    /\ call = [name |-> "init", args |-> <<>>]
    /\ NoBuffer
    /\ NoPulse
    /\ NoExtra

DepthAddReading(raw) ==
    /\ variant = "depth_scanner"
    /\ scan_count < MaxReadings
    /\ LET dist == IF raw <= 0 THEN DEPTH_MAX_DIST ELSE raw
       IN /\ last_dist' = dist
          /\ scan_count' = scan_count + 1
          /\ depth_buffer' = [x \in Columns |->
                                 IF Painted(x, scan_x) THEN dist ELSE depth_buffer[x]]
          /\ display' = [x \in Columns |->
                            Decay(IF Painted(x, scan_x) THEN <<Shade(dist), 0>>
                                  ELSE display[x])]
          /\ scan_x' = (scan_x + scan_speed) % DepthWidth
    /\ call' = [name |-> "add", args |-> <<raw>>]
    /\ UNCHANGED <<variant, bufferVars, pulseVars, extraVars>>

NextDepth == \E raw \in DepthReadings : DepthAddReading(raw)

SpecDepth == InitDepth /\ [][NextDepth]_vars

(***************************************************************************)
(* The colour mappings: SonarPulse._build_gradient and the table lookups   *)
(* of SonarPulse.render, and DepthScanner.dist_to_color.  They are         *)
(* functions of the distance alone, so SpecColor draws the distance and    *)
(* applies them; `out` holds what the call computed.  Keypoint positions   *)
(* are hundredths, norm_dist is tenths, and a colour of dist_to_color is   *)
(* in units of 1/50 (its table holds halves, its fraction is 1/25ths).     *)
(* A lookup outside a Python list raises IndexError: the value <<>>.        *)
(***************************************************************************)
ColorSlack == 2          \* distances are drawn this far around each end of a range
GRADIENT_SIZE == 256     \* sonar_pulse.py: for i in range(256)

keypoints ==
    << [t |-> 0, c |-> <<255, 30, 30>>],
       [t |-> 12, c |-> <<255, 80, 0>>],
       [t |-> 25, c |-> <<255, 160, 0>>],
       [t |-> 38, c |-> <<255, 230, 0>>],
       [t |-> 50, c |-> <<150, 255, 50>>],
       [t |-> 62, c |-> <<0, 255, 120>>],
       [t |-> 75, c |-> <<0, 230, 200>>],
       [t |-> 88, c |-> <<0, 150, 255>>],
       [t |-> 100, c |-> <<30, 60, 180>>] >>

\* mutant of Lerp: the two ends of the segment are exchanged
LerpSwapped(c1, c2, num, den) ==
    IF den = 0 THEN c2 ELSE IntTrunc(c2 * den + (c1 - c2) * num, den)

\* int(c1 + (c2 - c1) * local_t), local_t = num / den, or 0 when t2 = t1
Lerp(c1, c2, num, den) ==
    IF den = 0 THEN c1 ELSE IntTrunc(c1 * den + (c2 - c1) * num, den)

\* the body of the loop over i, from segment j on: t = i / 255
RECURSIVE GradientEntry(_, _)
GradientEntry(i, j) ==
    IF j > Len(keypoints) - 1 THEN keypoints[Len(keypoints)].c
    ELSE LET t1 == keypoints[j].t
             t2 == keypoints[j + 1].t
             c1 == keypoints[j].c
             c2 == keypoints[j + 1].c
             num == 100 * i - 255 * t1
             den == 255 * (t2 - t1)
         IN  IF 255 * t1 <= 100 * i /\ 100 * i <= 255 * t2
             THEN <<Lerp(c1[1], c2[1], num, den),
                    Lerp(c1[2], c2[2], num, den),
                    Lerp(c1[3], c2[3], num, den)>>
             ELSE GradientEntry(i, j + 1)

\* the list _build_gradient returns: entry i of Python is element i + 1
BuildGradient == [n \in 1 .. GRADIENT_SIZE |-> GradientEntry(n - 1, 1)]

IndexError == <<>>

\* table[idx] of a Python list, for idx >= 0
Lookup(table, idx) ==
    IF 0 <= idx /\ idx < Len(table) THEN table[idx + 1] ELSE IndexError

\* mutant of ColorIdx: the ratio is not clamped
ColorIdxUnclamped(dist) == IntTrunc(255 * dist, PULSE_MAX_DIST)

\* color_idx = int(min(1.0, max(0.0, current_dist / max_dist)) * 255)
ColorIdx(dist) ==
    IF dist <= 0 THEN 0
    ELSE IF dist >= PULSE_MAX_DIST THEN 255
    ELSE IntTrunc(255 * dist, PULSE_MAX_DIST)

\* norm_dist < visibility_threshold = 1.0 - dist_ratio * 0.85
Visible(dist, norm) == norm * 10 * PULSE_MAX_DIST < 100 * PULSE_MAX_DIST - 85 * dist

\* varied_idx = int(min(255, max(0, color_idx + norm_dist * 0.3 * 50)))
VariedIdx(color_idx, norm) ==
    IntTrunc(Min(2550, Max(0, 10 * color_idx + 15 * norm)), 10)

depth_colors ==
    << <<0, 0, 2>>, <<0, 1, 2>>, <<0, 2, 2>>, <<0, 2, 1>>, <<0, 2, 0>>,
       <<1, 2, 0>>, <<2, 2, 0>>, <<2, 1, 0>>, <<2, 0, 0>> >>

\* idx_high = min(idx_low + 1, len(self.colors) - 1)
IdxHigh(idx_low) == Min(idx_low + 1, Len(depth_colors) - 1)

\* colors[idx_low] * (1 - frac) + colors[idx_high] * frac, frac = r / 25
Blend(c_low, c_high, r) ==
    IF c_low = IndexError \/ c_high = IndexError THEN IndexError
    ELSE [k \in 1 .. 3 |-> c_low[k] * (25 - r) + c_high[k] * r]

\* dist_to_color: t = clip(dist / max_dist, 0, 1), idx = t * 8
DistToColor(dist) ==
    LET clipped == Max(0, Min(dist, DEPTH_MAX_DIST))
        steps == Len(depth_colors) - 1
        idx_low == IntTrunc(clipped * steps, DEPTH_MAX_DIST)
        idx_high == IdxHigh(idx_low)
        r == ((clipped * steps) % DEPTH_MAX_DIST) \div (DEPTH_MAX_DIST \div 25)
    IN  [idx_low |-> idx_low, idx_high |-> idx_high,
         color |-> Blend(Lookup(depth_colors, idx_low),
                         Lookup(depth_colors, idx_high), r)]

Around(v) == (v - ColorSlack) .. (v + ColorSlack)
CurrentDists == Around(0) \cup {PULSE_MAX_DIST \div 2} \cup Around(PULSE_MAX_DIST)
ColorDists == Around(0) \cup Around(25) \cup {110} \cup Around(DEPTH_MAX_DIST)
NormDists == {0, 5, 10}

InitColor ==
    /\ variant = "colors"
    /\ current_dist \in CurrentDists
    /\ target_dist = 0
    /\ state = ""
    /\ reading_history = <<>>
    /\ arrivals = <<>>
    /\ scan_count = 0
    /\ call = [name |-> "init", args |-> <<>>]
    /\ NoBuffer
    /\ NoDepth
    /\ NoExtra

ColorBuildGradient ==
    /\ variant = "colors"
    /\ call' = [name |-> "_build_gradient", args |-> <<>>]
    /\ out' = BuildGradient
    /\ UNCHANGED <<variant, scan_count, bufferVars, pulseVars, depthVars,
                   error, camera_angle, demo_walls, scatter, last_heading, simVars, pc>>

\* render, for one point of self.points at normalised distance norm
ColorRender(norm) ==
    /\ variant = "colors"
    /\ call' = [name |-> "render", args |-> <<current_dist, norm>>]
    /\ LET color_idx == ColorIdx(current_dist)
           varied_idx == VariedIdx(color_idx, norm)
       IN  out' = [color_idx |-> color_idx,
                   base_color |-> Lookup(BuildGradient, color_idx),
                   varied |-> IF Visible(current_dist, norm)
                              THEN <<[idx |-> varied_idx,
                                      color |-> Lookup(BuildGradient, varied_idx)]>>
                              ELSE <<>>]
    /\ UNCHANGED <<variant, scan_count, bufferVars, pulseVars, depthVars,
                   error, camera_angle, demo_walls, scatter, last_heading, simVars, pc>>

ColorDistToColor(dist) ==
    /\ variant = "colors"
    /\ call' = [name |-> "dist_to_color", args |-> <<dist>>]
    /\ out' = DistToColor(dist)
    /\ UNCHANGED <<variant, scan_count, bufferVars, pulseVars, depthVars,
                   error, camera_angle, demo_walls, scatter, last_heading, simVars, pc>>

NextColor ==
    \/ ColorBuildGradient
    \/ \E norm \in NormDists : ColorRender(norm)
    \/ \E dist \in ColorDists : ColorDistToColor(dist)

SpecColor == InitColor /\ [][NextColor]_vars

(***************************************************************************)
(* radar.py: RadarVisualizer._demo_raycast.  A direction is the heading    *)
(* with dx = sin and dy = cos in fifths: the four axes and the headings    *)
(* of the 3-4-5 triangle, so that the ray points are exact.  An obstacle   *)
(* is the tuple of _generate_demo_environment; SpecCast draws the list of  *)
(* obstacles, the heading and the noise.  `out` holds the distance found   *)
(* by the search (hit), the obstacle that set it (wall, 0 for none), the   *)
(* noise drawn and the value returned (dist).                              *)
(***************************************************************************)
SCAN_START == 5            \* range(5, int(self.max_dist), 2)
SCAN_STEP == 2             \* range(5, int(self.max_dist), 2)

Directions ==
    { [deg |-> 0, dx |-> 0, dy |-> 5], [deg |-> 37, dx |-> 3, dy |-> 4],
      [deg |-> 53, dx |-> 4, dy |-> 3], [deg |-> 90, dx |-> 5, dy |-> 0],
      [deg |-> 180, dx |-> 0, dy |-> -5], [deg |-> 233, dx |-> -4, dy |-> -3],
      [deg |-> 270, dx |-> -5, dy |-> 0], [deg |-> 323, dx |-> -3, dy |-> 4] }

GenerateDemoEnvironment ==
    << <<"rect", -80, -60, 160, 120>>, <<"circle", 40, 30, 20>>,
       <<"circle", -50, -20, 15>>, <<"rect", -30, 50, 25, 30>> >>

\* a wall at y = 100 spanning x in [-50, 50], of the given thickness
SingleWall(h) == << <<"rect", -50, 100, 100, h>> >>

Environments ==
    { GenerateDemoEnvironment,
      SubSeq(GenerateDemoEnvironment, 2, 4),
      <<>>,
      SingleWall(0),
      SingleWall(2),
      << <<"rect", -10, 60, 20, 10>>, <<"circle", 0, 40, 5>> >>,
      << <<"circle", 0, 40, 5>>, <<"rect", -10, 60, 20, 10>> >>,
      << <<"rect", -10, 35, 20, 10>>, <<"circle", 0, 40, 5>> >> }

\* random.gauss(0, 2), on the centimetre grid
CastNoises == {-3, 0, 2}

\* the point-in-obstacle tests, on (px, py) = (dx * dist, dy * dist)
Inside(wall, dir, dist) ==
    LET px5 == dir.dx * dist
        py5 == dir.dy * dist
    IN  IF wall[1] = "rect"
        THEN /\ 5 * wall[2] <= px5 /\ px5 <= 5 * (wall[2] + wall[4])
             /\ 5 * wall[3] <= py5 /\ py5 <= 5 * (wall[3] + wall[5])
        ELSE (px5 - 5 * wall[2]) * (px5 - 5 * wall[2])
               + (py5 - 5 * wall[3]) * (py5 - 5 * wall[3])
               <= 25 * wall[4] * wall[4]

\* the inner loop: the first scanned distance from dist on that is inside
\* the obstacle (then break), or max_dist when the loop runs out
RECURSIVE ScanWall(_, _, _)
ScanWall(wall, dir, dist) ==
    IF dist >= RADAR_MAX_DIST THEN RADAR_MAX_DIST
    ELSE IF Inside(wall, dir, dist) THEN dist
    ELSE ScanWall(wall, dir, dist + SCAN_STEP)

\* mutant of Nearer: the obstacle tested last wins
NearerLast(best, found, k) ==
    IF found < RADAR_MAX_DIST THEN [hit |-> found, wall |-> k] ELSE best

\* min_dist = min(min_dist, dist)
Nearer(best, found, k) ==
    IF found < best.hit THEN [hit |-> found, wall |-> k] ELSE best

\* the loop over self.demo_walls, from obstacle k on
RECURSIVE CastFrom(_, _, _, _)
CastFrom(env, dir, k, best) ==
    IF k > Len(env) THEN best
    ELSE CastFrom(env, dir, k + 1,
                  Nearer(best, ScanWall(env[k], dir, SCAN_START), k))

\* mutant of Noisy: the noise is off centre
NoisyBiased(hit, g) ==
    IF hit < RADAR_MAX_DIST
    THEN Max(SCAN_START, Min(RADAR_MAX_DIST, hit + g + 1))
    ELSE hit

\* if min_dist < max_dist: min_dist = max(5, min(max_dist, min_dist + gauss))
Noisy(hit, g) ==
    IF hit < RADAR_MAX_DIST
    THEN Max(5, Min(RADAR_MAX_DIST, hit + g))
    ELSE hit

InitCast ==
    /\ variant = "raycast"
    /\ demo_walls \in Environments
    /\ error = ""
    /\ camera_angle = 0
    /\ out = <<>>
    /\ scatter = <<>>
    /\ last_heading = 0
    /\ pc = "ingest"
    /\ NoSim
    /\ scan_count = 0
    /\ call = [name |-> "init", args |-> <<>>]
    /\ NoBuffer
    /\ NoPulse
    /\ NoDepth

DemoRaycast(dir, g) ==
    /\ variant = "raycast"
    /\ call' = [name |-> "_demo_raycast", args |-> <<dir.deg>>]
    /\ LET found == CastFrom(demo_walls, dir, 1,
                             [hit |-> RADAR_MAX_DIST, wall |-> 0])
       IN  out' = [hit |-> found.hit, wall |-> found.wall, noise |-> g,
                   dist |-> Noisy(found.hit, g)]
    /\ UNCHANGED <<variant, scan_count, bufferVars, pulseVars, depthVars,
                   error, camera_angle, demo_walls, scatter, last_heading, simVars, pc>>

NextCast == \E dir \in Directions, g \in CastNoises : DemoRaycast(dir, g)

SpecCast == InitCast /\ [][NextCast]_vars

(***************************************************************************)
(* The coordinates of the points: RadarVisualizer.add_point,               *)
(* LidarVisualizer.add_reading and visualize.py (x = d sin, y = d cos on   *)
(* the axes of the plot), PointCloudScanner.add_reading (px, py on the     *)
(* canvas) and SonarRadar.draw_points (py on the screen).  They are        *)
(* functions of the reading and of the random draws, so SpecProj draws     *)
(* these and `out` holds the coordinates of the points the call produces.  *)
(* Headings are quarter turns and the angular jitter is left at 0; the     *)
(* distance jitter is NoiseAt; the spreads of the point cloud are the      *)
(* same pattern scaled by SPREAD pixels.                                   *)
(***************************************************************************)
CLOUD_WIDTH == 1200        \* pointcloud.py self.width
CLOUD_HEIGHT == 700        \* pointcloud.py self.height
SCREEN_HEIGHT == 700       \* sonar_radar.py HEIGHT
CENTER_X == 450            \* sonar_radar.py WIDTH // 2
CENTER_Y == 600            \* sonar_radar.py HEIGHT - 100
SPREAD == 150              \* pixels per unit of the spread pattern

QuarterTurns == {0, 90, 180, 270}

\* the axis limits <<low, high>> set at construction
XLim(v) ==
    IF v = "pointcloud" THEN <<0, CLOUD_WIDTH>> ELSE <<-MaxDistOf(v), MaxDistOf(v)>>
YLim(v) ==
    CASE v = "pointcloud" -> <<0, CLOUD_HEIGHT>>
      [] v = "lidar" -> <<-((3 * LIDAR_MAX_DIST) \div 10), LIDAR_MAX_DIST>>
      [] v = "sonar_radar" -> <<0, SCREEN_HEIGHT>>
      [] OTHER -> <<-MaxDistOf(v), MaxDistOf(v)>>

\* sx = scatter_dist * sin(scatter_angle), sy = scatter_dist * cos(scatter_angle)
Polar(d, heading) == [x |-> d * SinDeg(heading), y |-> d * CosDeg(heading)]

\* the scatter loops of add_point (count 3) and add_reading (count 8)
RECURSIVE PolarScatter(_, _, _, _, _)
PolarScatter(heading, dist_cm, noise, i, count) ==
    IF i > count THEN <<>>
    ELSE LET d == dist_cm + NoiseAt(noise, i)
             rest == PolarScatter(heading, dist_cm, noise, i + 1, count)
         IN  IF d > 0 THEN <<Polar(d, heading)>> \o rest ELSE rest

\* base_x = width / 2 + width * 0.4 * sin(radians(camera_angle % 360))
BaseX(angle) == CLOUD_WIDTH \div 2 + ((4 * CLOUD_WIDTH) \div 10) * SinDeg(angle % 360)

\* base_y = height * (0.3 + 0.5 * dist / max_dist), whole for dist a multiple of 6
BaseY(dist) == (3 * CLOUD_HEIGHT) \div 10 + (CLOUD_HEIGHT * dist) \div (2 * CLOUD_MAX_DIST)

\* px = max(10, min(width - 10, px)), py = max(10, min(height - 50, py))
ClampX(px) == Max(10, Min(CLOUD_WIDTH - 10, px))
ClampY(py) == Max(10, Min(CLOUD_HEIGHT - 50, py))

RECURSIVE CloudProject(_, _, _, _)
CloudProject(angle, dist, noise, i) ==
    IF i > NumPoints(dist) THEN <<>>
    ELSE <<[x |-> ClampX(BaseX(angle) + SPREAD * NoiseAt(noise, i)),
            y |-> ClampY(BaseY(dist) + SPREAD * NoiseAt(noise, i + 1))]>>
         \o CloudProject(angle, dist, noise, i + 1)

\* py = CENTER_Y - int(point.distance * PIXELS_PER_CM), PIXELS_PER_CM = 2.5
SonarY(d) == CENTER_Y - IntTrunc(5 * d, 2)

ProjDists(v) == Dists(v) \cup {MaxDistOf(v) \div 2}
ProjCloudDists == {-6, 0, 6, CLOUD_MAX_DIST, 2 * CLOUD_MAX_DIST}

InitProj ==
    /\ variant = "projection"
    /\ scan_count = 0
    /\ call = [name |-> "init", args |-> <<>>]
    /\ NoBuffer
    /\ NoPulse
    /\ NoDepth
    /\ NoExtra

Projected(name, args, pts) ==
    /\ variant = "projection"
    /\ call' = [name |-> name, args |-> args]
    /\ out' = pts
    /\ UNCHANGED <<variant, scan_count, bufferVars, pulseVars, depthVars,
                   error, camera_angle, demo_walls, scatter, last_heading, simVars, pc>>

ProjRadar(heading_deg, dist_cm, noise) ==
    Projected("radar", <<heading_deg, dist_cm>>,
              IF RadarRejects(dist_cm) THEN <<>>
              ELSE PolarScatter(heading_deg, dist_cm, noise, 1, RADAR_SCATTER))

ProjLidar(heading_deg, dist_cm, noise) ==
    Projected("lidar", <<heading_deg, dist_cm>>,
              IF LidarRejects(dist_cm) THEN <<>>
              ELSE PolarScatter(heading_deg, dist_cm, noise, 1, LIDAR_SCATTER))

ProjVisualize(heading, dist) ==
    Projected("visualize", <<heading, dist>>,
              IF dist < MIN_CM \/ dist > MAX_CM \/ heading < 0 THEN <<>>
              ELSE <<Polar(dist, heading)>>)

ProjCloud(angle, dist, noise) ==
    Projected("pointcloud", <<angle, dist>>,
              IF CloudRejects(dist) THEN <<>>
              ELSE CloudProject(angle, dist, noise, 1))

ProjSonar(d) ==
    Projected("sonar_radar", <<d>>,
              IF SonarAccepts(d) THEN <<[x |-> CENTER_X, y |-> SonarY(d)]>> ELSE <<>>)

NextProj ==
    \/ \E h \in QuarterTurns, d \in ProjDists("radar"), noise \in Noises : ProjRadar(h, d, noise)
    \/ \E h \in QuarterTurns, d \in ProjDists("lidar"), noise \in Noises : ProjLidar(h, d, noise)
    \/ \E h \in QuarterTurns, d \in ProjDists("visualize") : ProjVisualize(h, d)
    \/ \E a \in QuarterTurns, d \in ProjCloudDists, noise \in Noises : ProjCloud(a, d, noise)
    \/ \E d \in SonarDists \cup {MAX_RANGE - 1} : ProjSonar(d)

SpecProj == InitProj /\ [][NextProj]_vars

(***************************************************************************)
(* SonarRadar.run: the key C empties the buffer between reads and draws.   *)
(* The steps of the loop body (events, read_data, draw_points) are taken   *)
(* in any order and any number of times.                                   *)
(***************************************************************************)
\* a deque that keeps its newest point when cleared
ClearedButNewest(buf) == IF buf = <<>> THEN buf ELSE <<buf[Len(buf)]>>

\* self.points.clear()
Cleared(buf) == <<>>

\* the K_c branch of the event loop
SonarClear ==
    /\ variant = "sonar_radar"
    /\ call' = [name |-> "clear", args |-> <<>>]
    /\ points' = Cleared(points)
    /\ UNCHANGED <<extraVars, pulseVars, depthVars, variant, max_points, now, nextId,
                   scan_count, frame, xs, ys, cs>>

InitSonar ==
    /\ variant = "sonar_radar"
    /\ Init

NextSonar ==
    \/ Tick
    \/ \E d \in SonarDists : SonarReadData(d)
    \/ SonarClear
    \/ SonarDrawPoints

SpecSonar == InitSonar /\ [][NextSonar]_vars

(***************************************************************************)
(* LidarVisualizer fed readings directly (add_reading) and through the     *)
(* serial loop of run_serial, which turns the simulated heading itself.    *)
(***************************************************************************)
HEADING_STEP == 3
MaxLines == 4      \* serial lines with a positive distance per run
LidarSerialFields == {<<>>, <<0>>, <<2>>, <<LIDAR_MAX_DIST>>, <<LIDAR_MAX_DIST + 1>>}

\* run_serial's loop body for one line: when the distance read is positive
\* the heading is advanced and add_reading called with it; then
\* update_display
LidarSerialLine(dist_cm, noise) ==
    /\ variant = "lidar"
    /\ scan_count < MaxScans
    /\ last_heading < HEADING_STEP * MaxLines
    /\ LET dist == MsgNumber(dist_cm, 0)
           heading == (last_heading + HEADING_STEP) % 360
           added == dist > 0 /\ ~LidarRejects(dist)
           st == IF added
                 THEN LidarScatter([buf |-> points, n |-> nextId], dist, noise, 1, now)
                 ELSE [buf |-> points, n |-> nextId]
       IN  /\ call' = [name |-> "line", args |-> <<dist>>]
           /\ points' = st.buf
           /\ nextId' = st.n
           /\ last_heading' = IF dist > 0 THEN heading ELSE last_heading
           /\ last_dist' = IF added THEN dist ELSE last_dist
           /\ scan_count' = IF added THEN scan_count + 1 ELSE scan_count
           /\ frame' = [pts |-> IF st.buf = <<>> THEN <<>> ELSE LidarVisible(st.buf, now),
                        upto |-> st.n]
           /\ scatter' = Offsets(scatter, frame'.pts)
    /\ UNCHANGED <<error, camera_angle, demo_walls, out, simVars, pc, pulseVars,
                   depth_buffer, display, scan_x, variant, max_points, now, xs, ys, cs>>

InitLidar ==
    /\ variant = "lidar"
    /\ Init

NextLidar ==
    \/ Tick
    \/ \E h \in LidarHeadings, d \in Dists("lidar"), noise \in Noises :
          LidarAddReading(h, d, noise)
    \/ \E d \in LidarSerialFields, noise \in Noises : LidarSerialLine(d, noise)
    \/ LidarUpdateDisplay

SpecLidar == InitLidar /\ [][NextLidar]_vars

(***************************************************************************)
(* SonarPulse.run_demo: the simulated rover.  One action is one pass of    *)
(* the loop: the rover moves for dt and changes state, its noisy distance  *)
(* is submitted with add_reading, then update(dt) and render().  dt is     *)
(* k / DtUnit seconds with k a multiple of DtUnit, so distances stay whole *)
(* centimetres; `wake` is the outcome of random.random() < 0.03.           *)
(***************************************************************************)
MaxFrames == 4                     \* frames per run
RoverDts == {0, DtUnit, 4 * DtUnit, 6 * DtUnit}
RoverNoises == {-1, 0, 1}          \* random.gauss(0, 1), rounded

\* the if / elif chain on the moved distance
RoverStep(dist, velocity, label, wake) ==
    IF dist < 5 THEN [state |-> "REVERSE", velocity |-> 25]
    ELSE IF dist > 20 /\ label = "REVERSE" THEN [state |-> "WAIT", velocity |-> 0]
    ELSE IF label = "WAIT" /\ wake THEN [state |-> "DRIVE", velocity |-> -20]
    ELSE IF dist > 130 THEN [state |-> label, velocity |-> -20]
    ELSE [state |-> label, velocity |-> velocity]

RoverFrame(k, g, wake) ==
    /\ variant = "sonar_pulse"
    /\ scan_count < MaxFrames
    /\ LET moved == sim_dist + (sim_velocity * k) \div DtUnit
           sim == RoverStep(moved, sim_velocity, sim_state, wake)
           dist == Max(3, moved + g)
           clamped == ClampReading(dist)
           history == PushReading(reading_history, clamped)
           target == Smoothed(history)
           diff == target - current_dist
       IN  /\ sim_dist' = moved
           /\ sim_state' = sim.state
           /\ sim_velocity' = sim.velocity
           /\ state' = sim.state
           /\ scan_count' = scan_count + 1
           /\ reading_history' = history
           /\ target_dist' = target
           /\ arrivals' = Append(arrivals, clamped)
           /\ current_dist' = current_dist + (diff * FollowFactor(k)) \div DtUnit
           /\ out' = [color_idx |-> ColorIdx(current_dist')]
           /\ call' = [name |-> "frame", args |-> <<dist, k>>]
    /\ UNCHANGED <<variant, bufferVars, depthVars, error, camera_angle, demo_walls,
                   scatter, last_heading, pc>>

InitRover ==
    /\ variant = "sonar_pulse"
    /\ current_dist = 100
    /\ target_dist = 100
    /\ state = "SCANNING"
    /\ reading_history = <<>>
    /\ arrivals = <<>>
    /\ scan_count = 0
    /\ call = [name |-> "init", args |-> <<>>]
    /\ sim_dist = 80
    /\ sim_velocity = -20
    /\ sim_state = "DRIVE"
    /\ error = ""
    /\ camera_angle = 0
    /\ demo_walls = <<>>
    /\ out = <<>>
    /\ scatter = <<>>
    /\ last_heading = 0
    /\ pc = "ingest"
    /\ NoBuffer
    /\ NoDepth

NextRover == \E k \in RoverDts, g \in RoverNoises, wake \in BOOLEAN : RoverFrame(k, g, wake)

SpecRover == InitRover /\ [][NextRover]_vars

(***************************************************************************)
(* The main loops (run_demo and run_serial of radar, lidar and pointcloud, *)
(* SonarRadar.run).  One pass ingests readings, zero or more of them (the  *)
(* point cloud takes several per pass, SonarRadar handles its key events   *)
(* first), then renders, then pauses.  The render pass is two steps: its   *)
(* start reads the clock and takes the points to draw from the buffer, its *)
(* end puts them on screen.  pc is the phase the loop is in.               *)
(***************************************************************************)
ScatterVariants == {"radar", "lidar", "pointcloud"}
VisibleOf(v, buf, t_now) ==
    CASE v = "radar" -> RadarVisible(buf, t_now)
      [] v = "lidar" -> LidarVisible(buf, t_now)
      [] v = "pointcloud" -> CloudVisible(buf, t_now)

\* readings appended from a second thread, whatever the loop is doing
CanIngestAnytime(phase) == TRUE

\* the loop itself reads and appends, before it renders
CanIngest(phase) == phase = "ingest"

LoopIngest ==
    /\ CanIngest(pc)
    /\ \/ \E d \in Dists("radar"), noise \in Noises : RadarAddPoint(d, noise)
       \/ \E h \in LidarHeadings, d \in Dists("lidar"), noise \in Noises :
             LidarAddReading(h, d, noise)
       \/ \E hits \in HitLists : LidarAddPoints(hits)
       \/ \E d \in CloudDists, noise \in Noises :
             scan_count < MaxScans /\ CloudAddReading(d, noise)
       \/ \E d \in SonarDists : SonarReadData(d)
       \/ SonarClear

\* start of update_plot / update_display / draw_points
LoopSnapshot ==
    /\ variant \in DequeVariants
    /\ pc = "ingest"
    /\ pc' = "render"
    /\ call' = [name |-> "snapshot", args |-> <<>>]
    /\ points' = IF variant = "sonar_radar" THEN SonarPurge(points, now) ELSE points
    /\ frame' = [pts |-> IF variant = "sonar_radar" THEN SonarDrawn(points', now)
                         ELSE IF points = <<>> THEN <<>>
                         ELSE VisibleOf(variant, points, now),
                 upto |-> nextId]
    /\ UNCHANGED <<error, camera_angle, demo_walls, out, scatter, last_heading, simVars,
                   pulseVars, depthVars, variant, max_points, now, nextId, scan_count,
                   xs, ys, cs>>

\* end of the render pass: set_offsets / the drawn circles
LoopDraw ==
    /\ pc = "render"
    /\ pc' = "pause"
    /\ call' = [name |-> "render", args |-> <<>>]
    /\ scatter' = IF variant \in ScatterVariants THEN Offsets(scatter, frame.pts)
                  ELSE scatter
    /\ UNCHANGED <<error, camera_angle, demo_walls, out, last_heading, simVars,
                   pulseVars, depthVars, variant, max_points, now, points, nextId,
                   scan_count, frame, xs, ys, cs>>

\* plt.pause / clock.tick
LoopPause ==
    /\ pc = "pause"
    /\ pc' = "ingest"
    /\ \E t \in Instants(variant) : t >= now /\ now' = t
    /\ call' = [name |-> "tick", args |-> <<>>]
    /\ UNCHANGED <<error, camera_angle, demo_walls, out, scatter, last_heading, simVars,
                   pulseVars, depthVars, variant, max_points, points, nextId,
                   scan_count, frame, xs, ys, cs>>

InitLoop ==
    /\ variant \in DequeVariants
    /\ Init

NextLoop ==
    \/ LoopIngest
    \/ LoopSnapshot
    \/ LoopDraw
    \/ LoopPause

SpecLoop == InitLoop /\ [][NextLoop]_vars

(***************************************************************************)
(* Properties of the point buffers (checked under Spec).                   *)
(***************************************************************************)
Ids(s) == [i \in 1 .. Len(s) |-> s[i].id]
IdSet(s) == {s[i].id : i \in 1 .. Len(s)}
\* the ids of the last min(k, cap) of k insertions, oldest first
LastIds(k, cap) == [i \in 1 .. Min(k, cap) |-> k - Min(k, cap) + i]
Fresh(p) == now - p.t < LifetimeOf(variant)
IsRender(c) == c.name = "render"
IsAdd(c) == c.name = "add"

\* C1: in the deque-backed visualizers the buffer never holds more than
\* max_points points, whatever readings were submitted and however many
\* sub-points one reading appends.
C1_BufferBounded ==
    variant \in DequeVariants => Len(points) <= max_points

C1_Witness ==
    /\ variant = "lidar"
    /\ max_points = 2
    /\ IsAdd(call)
    /\ Len(points) = max_points
    /\ nextId >= LIDAR_SCATTER

\* C2: eviction is oldest-first.  A handler that inserts points leaves in the
\* buffer exactly the last max_points of (old content, then the new points in
\* insertion order), the kept points unchanged; so where nothing but insertion
\* removes points (radar, lidar, pointcloud, and the three lists of
\* visualize.py for a capacity of at least 1) the buffer after k insertions is
\* exactly p_{k-max_points+1} .. p_k, and in sonar_radar, whose render pass
\* also purges, it is the last len(buffer) of them.
LastN(s, n) == SubSeq(s, Len(s) - Min(Len(s), n) + 1, Len(s))
NewIds == [i \in 1 .. (nextId' - nextId) |-> nextId + i]
KeptUnchanged(old, new) ==
    \A i \in 1 .. Len(new) :
        new[i].id <= nextId => \E j \in 1 .. Len(old) : old[j] = new[i]
AppendsFifo(old, new) ==
    /\ Ids(new) = LastN(Ids(old) \o NewIds, max_points)
    /\ KeptUnchanged(old, new)

C3_VisibleExact ==
    [][(IsRender(call') /\ variant \in DequeVariants)
           => frame'.pts = SelectSeq(points, Fresh)]_vars

C3_Witness ==
    /\ IsRender(call)
    /\ \E i \in 1 .. Len(points) : now - points[i].t = LifetimeOf(variant)
    /\ \E i \in 1 .. Len(frame.pts) : now - frame.pts[i].t = LifetimeOf(variant) - 1

\* C4: a snapshot leaves the buffer alone, or (sonar_radar) removes from its
\* head only points that are not visible; a point that existed at one snapshot
\* and was absent from it is absent from the next one; every snapshot lists
\* its points in insertion order.
C4_SnapshotTransparent ==
    [][IsRender(call') =>
          /\ variant # "sonar_radar" => points' = points
          /\ variant = "sonar_radar" =>
                \E k \in 0 .. Len(points) :
                    /\ points' = SubSeq(points, k + 1, Len(points))
                    /\ \A i \in 1 .. k : ~Fresh(points[i])
          /\ \A i \in 1 .. Len(frame'.pts) :
                frame'.pts[i].id <= frame.upto => frame'.pts[i].id \in IdSet(frame.pts)
          /\ \A i, j \in 1 .. Len(frame'.pts) :
                i < j => frame'.pts[i].id < frame'.pts[j].id]_vars

C4_Witness ==
    /\ variant = "sonar_radar"
    /\ IsRender(call)
    /\ Len(points) >= 1
    /\ Len(points) < Min(nextId, max_points)
    /\ Len(frame.pts) >= 1
    /\ frame.pts[1].id > 1

\* C5: a reading whose distance is not positive leaves the buffer as it was,
\* and no stored point has a distance of zero or less.
C5_NonPositiveRejected ==
    /\ [][(IsAdd(call') /\ variant \in DequeVariants
             /\ \A i \in 1 .. Len(call'.args) : call'.args[i] <= 0)
            => points' = points]_vars
    /\ [](\A i \in 1 .. Len(points) : points[i].d > 0)

C5_Witness ==
    /\ variant = "radar"
    /\ IsAdd(call)
    /\ call.args = <<-5>>
    /\ points # <<>>

(***************************************************************************)
(* Properties of the reading filter (SpecPulse) and of the depth image     *)
(* (SpecDepth).                                                            *)
(***************************************************************************)
\* C6: SonarPulse.add_reading(d) with d <= 0 is "no reading": the window
\* reading_history and target_dist are the same after the call as before.
C6_NonPositiveNotEntered ==
    [][(IsAdd(call') /\ call'.args[1] <= 0)
         => (reading_history' = reading_history /\ target_dist' = target_dist)]_vars

\* C7: DepthScanner.add_reading(d) with d <= 0 is ignored: display, depth
\* buffer, scan_x, last_dist and scan_count are unchanged by the call.
C7_NonPositiveIgnored ==
    [][(IsAdd(call') /\ call'.args[1] <= 0)
         => UNCHANGED <<display, depth_buffer, scan_x, last_dist, scan_count>>]_vars

\* v is the element at index len // 2 of the sorted window, said by rank:
\* at most len // 2 samples lie below it and more than len // 2 do not exceed it
IsUpperMedian(v, window) ==
    /\ \E i \in 1 .. Len(window) : window[i] = v
    /\ Cardinality({i \in 1 .. Len(window) : window[i] < v}) <= Len(window) \div 2
    /\ Cardinality({i \in 1 .. Len(window) : window[i] <= v}) > Len(window) \div 2

\* C8: after n calls of add_reading the window is the last min(n, 5) samples
\* in arrival order (never more than history_size), and target_dist is the
\* median of the window, the element at index len // 2 of the sorted window.
C8_WindowMedian ==
    /\ Len(arrivals) = scan_count
    /\ Len(reading_history) <= history_size
    /\ reading_history = LastN(arrivals, Min(scan_count, history_size))
    /\ scan_count >= 1 => IsUpperMedian(target_dist, reading_history)

C8_Witness ==
    /\ IsAdd(call)
    /\ scan_count = history_size + 1
    /\ arrivals[1] = 165
    /\ reading_history = <<2, 60, 60, 2, 60>>
    /\ target_dist = 60

\* the samples of the window other than the one at position j
Others(window, j) == {window[i] : i \in (1 .. Len(window)) \ {j}}
Within(v, S) == \E lo \in S, hi \in S : lo <= v /\ v <= hi

\* C9 as stated: whatever the size of the window (two samples or more, the
\* warm-up included) and whichever single sample is the wild one, target_dist
\* lies within the min..max range of the other samples.
C9_OutlierAnySize ==
    \A j \in 1 .. Len(reading_history) :
        Len(reading_history) >= 2 => Within(target_dist, Others(reading_history, j))

\* C9, amended: once the window holds at least three samples (sizes 3 to 5),
\* whichever single sample is the wild one, target_dist lies within the
\* min..max range of the other samples.  With two samples target_dist is the
\* larger of the two, with one sample it is that sample.
C9_OutlierFromThree ==
    /\ \A j \in 1 .. Len(reading_history) :
           Len(reading_history) >= 3
               => Within(target_dist, Others(reading_history, j))
    /\ Len(reading_history) = 2
           => target_dist = Max(reading_history[1], reading_history[2])
    /\ Len(reading_history) = 1 => target_dist = reading_history[1]

C9_Witness ==
    /\ IsAdd(call)
    /\ reading_history = <<60, 60, 165, 60, 60>>
    /\ target_dist = 60

IsCall(name) == call.name = name

\* C11: the gradient's ends are its first and last key colours: the table
\* of _build_gradient has 256 entries, entry 0 is keypoints[0]'s colour and
\* entry 255 is keypoints[-1]'s; dist_to_color(0) is colors[0] and
\* dist_to_color(max_dist) is colors[-1].
C11_GradientEndpoints ==
    /\ IsCall("_build_gradient") =>
          /\ Len(out) = GRADIENT_SIZE
          /\ out[1] = keypoints[1].c
          /\ out[GRADIENT_SIZE] = keypoints[Len(keypoints)].c
    /\ IsCall("dist_to_color") /\ call.args = <<0>> =>
          out.color = [k \in 1 .. 3 |-> 25 * depth_colors[1][k]]
    /\ IsCall("dist_to_color") /\ call.args = <<DEPTH_MAX_DIST>> =>
          out.color = [k \in 1 .. 3 |-> 25 * depth_colors[Len(depth_colors)][k]]

C11_Witness ==
    \/ IsCall("_build_gradient") /\ out[2] # out[1] /\ out[GRADIENT_SIZE - 1] # out[GRADIENT_SIZE]
    \/ IsCall("dist_to_color") /\ call.args = <<DEPTH_MAX_DIST>> /\ out.idx_low = 8

\* C12: every table index is inside its table.  In render color_idx and the
\* varied_idx of every drawn point are within 0 .. 255 and both lookups give
\* a colour, for a distance below 0, in range, or above max_dist;
\* dist_to_color gives the first colour for dist <= 0 and the last for
\* dist >= max_dist, and its two interpolation indices are within 0 .. 8.
C12_LookupsClamped ==
    /\ IsCall("render") =>
          /\ out.color_idx \in 0 .. GRADIENT_SIZE - 1
          /\ out.base_color # IndexError
          /\ \A k \in 1 .. Len(out.varied) :
                /\ out.varied[k].idx \in 0 .. GRADIENT_SIZE - 1
                /\ out.varied[k].color # IndexError
    /\ IsCall("dist_to_color") =>
          /\ out.idx_low \in 0 .. Len(depth_colors) - 1
          /\ out.idx_high \in 0 .. Len(depth_colors) - 1
          /\ out.color # IndexError
          /\ call.args[1] <= 0 =>
                out.color = [k \in 1 .. 3 |-> 25 * depth_colors[1][k]]
          /\ call.args[1] >= DEPTH_MAX_DIST =>
                out.color = [k \in 1 .. 3 |-> 25 * depth_colors[Len(depth_colors)][k]]

C12_Witness ==
    \/ IsCall("render") /\ call.args[1] > PULSE_MAX_DIST /\ out.color_idx = 255
    \/ IsCall("render") /\ call.args[1] < 0 /\ Len(out.varied) = 1
    \/ IsCall("dist_to_color") /\ call.args[1] > DEPTH_MAX_DIST

(***************************************************************************)
(* Properties of the demo ray cast (SpecCast).                             *)
(***************************************************************************)
DirOf(deg) == CHOOSE dir \in Directions : dir.deg = deg
ScanDists == {d \in SCAN_START .. RADAR_MAX_DIST - 1 : (d - SCAN_START) % SCAN_STEP = 0}
HitDists(env, dir) ==
    {d \in ScanDists : \E k \in 1 .. Len(env) : Inside(env[k], dir, d)}
IsLeast(d, S) == d \in S /\ \A e \in S : d <= e

\* C13: before the noise, _demo_raycast finds the smallest scanned distance
\* at which the ray point is inside some obstacle (rectangle or circle),
\* over all obstacles, and max_dist when no scanned point is inside any;
\* two obstacles first hit at the same distance give that distance.
C13_FirstHit ==
    IsCall("_demo_raycast") =>
        LET H == HitDists(demo_walls, DirOf(call.args[1]))
        IN  IF H = {} THEN out.hit = RADAR_MAX_DIST /\ out.wall = 0
            ELSE /\ IsLeast(out.hit, H)
                 /\ out.wall \in 1 .. Len(demo_walls)
                 /\ Inside(demo_walls[out.wall], DirOf(call.args[1]), out.hit)

\* two obstacles of one environment are first hit at the same distance, or
\* the nearer obstacle is not the last of the list
C13_Witness ==
    /\ IsCall("_demo_raycast")
    /\ Len(demo_walls) = 2
    /\ out.hit < RADAR_MAX_DIST
    /\ \/ /\ Inside(demo_walls[1], DirOf(call.args[1]), out.hit)
          /\ Inside(demo_walls[2], DirOf(call.args[1]), out.hit)
       \/ /\ out.wall = 1
          /\ \E d \in ScanDists : Inside(demo_walls[2], DirOf(call.args[1]), d)

C15_SingleWallScenario ==
    IsCall("_demo_raycast") /\ (\E h \in {0, 2} : demo_walls = SingleWall(h)) =>
        /\ call.args = <<0>> /\ out.noise = 0 =>
              /\ out.dist >= 100 - SCAN_STEP
              /\ out.dist <= 100 + SCAN_STEP
        /\ call.args = <<90>> => out.dist = RADAR_MAX_DIST

(***************************************************************************)
(* Properties of the projections (SpecProj).                               *)
(***************************************************************************)
Between(v, lim) == lim[1] <= v /\ v <= lim[2]

\* C16: every point a projection produces is inside the viewport: in the
\* point cloud px is within 10 .. width - 10 and py within 10 .. height - 50;
\* on the sonar screen py is within the screen height; on the plots of
\* radar, lidar and visualize.py x and y are within the axis limits.
C16_WithinViewport ==
    call.name \in Variants =>
        \A k \in 1 .. Len(out) :
            IF call.name = "pointcloud"
            THEN /\ Between(out[k].x, <<10, CLOUD_WIDTH - 10>>)
                 /\ Between(out[k].y, <<10, CLOUD_HEIGHT - 50>>)
            ELSE /\ call.name # "sonar_radar" => Between(out[k].x, XLim(call.name))
                 /\ Between(out[k].y, YLim(call.name))

(***************************************************************************)
(* Properties of the point cloud's camera (SpecSweep) and of its scatter   *)
(* (Spec).                                                                 *)
(***************************************************************************)
\* C17: the camera angle of the point cloud advances by camera_speed (0.8
\* degrees) on every accepted reading and is 0.8 times their number; a
\* rejected reading (dist <= 0) leaves it alone; base_x is computed from
\* the angle reduced modulo 360.
C17_CameraAdvance ==
    [][variant = "pointcloud" /\ IsAdd(call') =>
          IF call'.args[1] <= 0
          THEN camera_angle' = camera_angle /\ scan_count' = scan_count /\ out' = out
          ELSE /\ camera_angle' = camera_angle + 8
               /\ scan_count' = scan_count + 1
               /\ camera_angle' = 8 * scan_count'
               /\ out'.angle \in 0 .. 3599
               /\ \E turns \in 0 .. 1 : camera_angle' = 3600 * turns + out'.angle]_vars

C17_Witness ==
    /\ variant = "pointcloud"
    /\ IsAdd(call)
    /\ camera_angle > 3600
    /\ out.angle = camera_angle - 3600

\* the count of every distance up to twice max_dist is within 3 .. 15 and
\* is not below the count of the next distance
CountNonIncreasing ==
    \A d \in 1 .. 2 * CLOUD_MAX_DIST :
        /\ NumPoints(d) \in 3 .. 15
        /\ NumPoints(d + 1) <= NumPoints(d)

\* C18: an accepted reading of the point cloud appends exactly
\* N = max(3, int(15 - 10 * dist / max_dist)) points; N is within 3 .. 15
\* and does not grow with the distance, beyond max_dist included; the
\* points of one reading carry one timestamp.
C18_ScatterCount ==
    [][variant = "pointcloud" /\ IsAdd(call') /\ call'.args[1] > 0 =>
          LET dist == call'.args[1]
              N == nextId' - nextId
          IN  /\ N \in 3 .. 15
              /\ IF 10 * dist > 11 * CLOUD_MAX_DIST THEN N = 3
                 ELSE /\ N * CLOUD_MAX_DIST <= 15 * CLOUD_MAX_DIST - 10 * dist
                      /\ 15 * CLOUD_MAX_DIST - 10 * dist < (N + 1) * CLOUD_MAX_DIST
              /\ N = NumPoints(dist)
              /\ CountNonIncreasing
              /\ \A k \in 1 .. Len(points') :
                    points'[k].id > nextId => points'[k].t = now]_vars

C18_Witness ==
    /\ variant = "pointcloud"
    /\ IsAdd(call)
    /\ call.args[1] > CLOUD_MAX_DIST
    /\ Len(points) = 3
    /\ nextId > 15

(***************************************************************************)
(* Properties of the serial loops (SpecSerial) and of construction.        *)
(***************************************************************************)
IsLine(c) == c.name = "line" \/ (variant = "visualize" /\ c.name = "add")

\* C19: a line whose heading is outside [0, 360), negative or 360 and more,
\* appends no point: the buffers of radar.py's run_serial and of
\* visualize.py's loop are the same after the line as before.
C19_HeadingOutsideDropped ==
    [][(IsLine(call') /\ (call'.args[2] < 0 \/ call'.args[2] >= 360))
          => UNCHANGED <<points, nextId, xs, ys, cs>>]_vars

\* C20: max_points <= 0, zero or negative, is refused at construction by
\* RadarVisualizer, LidarVisualizer, PointCloudScanner and visualize.py:
\* the constructor raises, and no reading is processed.
C20_RefusedAtConstruction ==
    (variant \in {"radar", "lidar", "pointcloud", "visualize"} /\ max_points <= 0)
        => error # "" /\ call.name = "init"

(***************************************************************************)
(* Properties of the demo room and of the serial loops' acceptance.       *)
(***************************************************************************)
\* C26: in the default demo environment the cast from the origin along
\* heading 0, where no pillar or box is in the way, returns before noise the
\* distance at which the ray reaches the room wall, about 60.
C26_RoomWallDistance ==
    (IsCall("_demo_raycast") /\ demo_walls = GenerateDemoEnvironment
        /\ call.args = <<0>>) =>
        /\ out.hit >= 60 - SCAN_STEP
        /\ out.hit <= 60 + SCAN_STEP

\* C27: a line with a valid distance and the heading 0 is accepted: radar's
\* run_serial appends the scatter of one reading, visualize.py appends
\* exactly one point, at (0, dist).
C27_HeadingZeroAccepted ==
    [][(IsLine(call') /\ call'.args[3] = <<2>> /\ call'.args[4] = <<0>>) =>
          IF variant = "radar"
          THEN nextId' > nextId
          ELSE /\ nextId' = nextId + 1
               /\ xs'[Len(xs')].v = 0
               /\ ys'[Len(ys')].v = 2]_vars

\* C28: in visualize.py, for every max_points >= 0, after each line the
\* lists xs, ys and cs have the same length, at most max_points, and the
\* same index of the three lists belongs to the same reading.
C28_ParallelListsBounded ==
    (variant = "visualize" /\ max_points >= 0) =>
        /\ Len(xs) = Len(ys)
        /\ Len(ys) = Len(cs)
        /\ Len(xs) <= max_points
        /\ \A i \in 1 .. Len(xs) : xs[i].id = ys[i].id /\ ys[i].id = cs[i].id

(***************************************************************************)
(* Properties of rendering: the empty buffer and the on-screen scatter.   *)
(***************************************************************************)
\* C22: as long as no reading has been accepted the buffer is empty, nothing
\* is shown and nothing was raised; a render of an empty buffer leaves the
\* buffer empty and shows no point, however many renders follow one another.
C22_EmptySteadyState ==
    /\ [](nextId = 0 =>
            points = <<>> /\ frame.pts = <<>> /\ scatter = <<>> /\ error = "")
    /\ [][(IsRender(call') /\ points = <<>>) =>
            /\ points' = <<>>
            /\ frame'.pts = <<>>
            /\ scatter' = <<>>
            /\ error' = ""]_vars

C22_Witness ==
    /\ IsRender(call)
    /\ nextId = 0
    /\ now = LifetimeOf(variant) + Slack
    /\ points = <<>>
    /\ frame.pts = <<>>

\* C24: after update_plot / update_display the scatter on screen holds the
\* visible points of the buffer, those younger than the lifetime, and holds
\* no point when every buffered point has expired.
C24_ScatterShowsVisible ==
    (IsRender(call) /\ variant \in ScatterVariants) =>
        scatter = VisibleOf(variant, points, now)

(***************************************************************************)
(* Properties of SonarRadar's clear key and purge (SpecSonar).             *)
(***************************************************************************)
\* C23: the key C leaves the buffer with length 0 whatever it held; a draw
\* that follows draws none of the points accumulated before; a reading
\* accepted afterwards is appended as the only point, and the buffer never
\* holds more than MAX_POINTS.
C23_ClearEmpties ==
    /\ [][IsCall("clear")' => Len(points') = 0]_vars
    /\ [][(IsCall("clear") /\ IsRender(call')) => frame'.pts = <<>>]_vars
    /\ [][(IsCall("clear") /\ IsAdd(call') /\ SonarAccepts(call'.args[1])) =>
             points' = <<Point(nextId + 1, call'.args[1], now)>>]_vars
    /\ [](Len(points) <= max_points)
    /\ [][IsRender(call') =>
             \A i \in 1 .. Len(frame'.pts) :
                 \E j \in 1 .. Len(points') : frame'.pts[i] = points'[j]]_vars

C23_Witness ==
    /\ IsCall("clear")
    /\ now = 0
    /\ nextId = max_points
    /\ frame.pts # <<>>
    /\ points = <<>>

\* C25: timestamps in the buffer never decrease, and draw_points' purge from
\* the head removes exactly the expired points: the buffer after it is the
\* buffer before it without the points older than POINT_LIFETIME.
C25_PurgeExact ==
    /\ [](\A i \in 1 .. Len(points) - 1 : points[i].t <= points[i + 1].t)
    /\ [][(IsRender(call') /\ variant = "sonar_radar") =>
             points' = SelectSeq(points, LAMBDA p : now - p.t <= POINT_LIFETIME)]_vars

C25_Witness ==
    /\ IsRender(call)
    /\ variant = "sonar_radar"
    /\ now = POINT_LIFETIME + Slack
    /\ Len(points) = 1
    /\ points[1].t = Slack
    /\ points[1].id = 3
    /\ nextId = 3

\* C29: a reading LidarVisualizer rejects, dist_cm <= 0 or dist_cm >
\* max_dist, leaves points, scan_count, last_dist and last_heading as they
\* were, when add_reading is called directly and when the reading comes
\* through run_serial.
C29_RejectedChangesNothing ==
    [][(variant = "lidar" /\ (IsAdd(call') \/ IsLine(call'))
           /\ LidarRejects(call'.args[1]))
          => UNCHANGED <<points, scan_count, last_dist, last_heading>>]_vars

\* C30: in the simulated rover of run_demo the state fixes the velocity,
\* DRIVE -20, REVERSE +25, WAIT 0, in every reachable state, and every
\* distance passed to add_reading is at least 3.
C30_StateVelocityCoupled ==
    variant = "sonar_pulse" =>
        /\ sim_state = "DRIVE" => sim_velocity = -20
        /\ sim_state = "REVERSE" => sim_velocity = 25
        /\ sim_state = "WAIT" => sim_velocity = 0
        /\ IsCall("frame") => call.args[1] >= 3

(***************************************************************************)
(* Property of the main loops (SpecLoop).                                  *)
(***************************************************************************)
\* C21: ingestion and rendering alternate: the phases follow one another in
\* the order ingest, render, pause; the buffer is appended to only in the
\* ingest phase, which leaves the frame alone; between the start and the end
\* of a render pass neither the buffer nor the set of points taken for the
\* frame changes, and that set covers every reading submitted before it.
C21_IngestRenderAlternate ==
    /\ [][pc' # pc => <<pc, pc'>> \in {<<"ingest", "render">>, <<"render", "pause">>,
                                       <<"pause", "ingest">>}]_vars
    /\ [][nextId' # nextId => (pc = "ingest" /\ pc' = "ingest" /\ frame' = frame)]_vars
    /\ [][pc = "render" => (pc' = "pause" /\ UNCHANGED <<points, nextId, frame>>)]_vars
    /\ [](pc \in {"render", "pause"} => frame.upto = nextId)

C21_Witness ==
    /\ pc = "pause"
    /\ variant = "radar"
    /\ now = Slack
    /\ nextId = 2 * RADAR_SCATTER
    /\ frame.pts # <<>>
    /\ scatter = frame.pts

====
